---- MODULE Spec2Model ----
(***************************************************************************)
(* A model of the goduckdb database/sql driver: the Connection (conn),    *)
(* the prepared Statement (stmt), the result cursor (duckdbRows), the     *)
(* parameter binder (stmt.start) and the interpolator                      *)
(* (conn.interpolateParams, escapeValue).                                  *)
(*                                                                         *)
(* Texts are sequences of one-byte tokens.  The bytes that have no         *)
(* printable form are written "NUL", "LF", "CR" and "SUB" (0x1A).          *)
(* Native handles are modelled by what the adapter can observe of them:    *)
(* how often each was released and which native calls were made on a       *)
(* handle that was already released (or was NULL).                         *)
(***************************************************************************)
EXTENDS Integers, Sequences, FiniteSets, TLC

\* ------------------------------------------------------------------ bounds
MaxStmts == 1
MaxCursors == 2
MaxTxs == 2
MaxParams == 2
MaxRows == 2
MaxCols == 2
MaxQueryLen == 3
MaxArgs == 2
NThreads == 2
MaxTextLen == 3
MaxPathLen == 2
MaxPairs == 2

VARIABLES
  c,         \* the conn: db handle field and the native handles behind it
  stmts,     \* the stmt objects Prepare has returned, in order
  rows,      \* the duckdbRows objects Query has returned, in order
  txs,       \* the duckdbTx objects Begin has returned, in order
  native,    \* the engine's side: how often the connection was disconnected
             \* and the database handle closed
  last,      \* the call that returned last, with what it returned
  thr,       \* concurrent callers: each one's position in its call
  mu         \* the sync.Mutex of the conn and of the stmt: 0, or the holder

vars == <<c, stmts, rows, txs, native, last, thr, mu>>

\* ------------------------------------------------------------- small helpers
Range(f) == {f[x] : x \in DOMAIN f}

SeqsUpTo(S, n) == UNION {[1..k -> S] : k \in 0..n}

\* strings.Count(query, "?")
RECURSIVE Count(_, _)
Count(s, ch) ==
  IF s = <<>> THEN 0
  ELSE (IF Head(s) = ch THEN 1 ELSE 0) + Count(Tail(s), ch)

Digit(d) == CASE d = 0 -> "0" [] d = 1 -> "1" [] d = 2 -> "2" [] d = 3 -> "3"
              [] d = 4 -> "4" [] d = 5 -> "5" [] d = 6 -> "6" [] d = 7 -> "7"
              [] d = 8 -> "8" [] d = 9 -> "9"

RECURSIVE NatText(_)
NatText(n) == IF n < 10 THEN <<Digit(n)>> ELSE NatText(n \div 10) \o <<Digit(n % 10)>>

\* strconv.AppendInt(buf, v, 10): the decimal text of v
AppendInt(n) == IF n < 0 THEN <<"-">> \o NatText(-n) ELSE NatText(n)

\* ------------------------------------------------------------------ arguments
\* A driver.Value by its dynamic kind.  i, j and s carry the value: an integer
\* or a boolean (1/0) in i; a time.Time as seconds since the epoch in i and
\* nanoseconds within the second in j; a float64 as the decimal digits i and
\* the decimal point position j (value 0.i * 10^j, i without trailing zeros);
\* a string in s.
Arg(k, i, j, s) == [kind |-> k, i |-> i, j |-> j, s |-> s]

NilArg == Arg("nil", 0, 0, <<>>)

OtherArg == Arg("other", 0, 0, <<>>)

IntArg(k, n) == Arg(k, n, 0, <<>>)

BoolArg(b) == Arg("bool", IF b THEN 1 ELSE 0, 0, <<>>)

TimeArg(sec, nsec) == Arg("time", sec, nsec, <<>>)

FloatArg(digits, dp) == Arg("float64", digits, dp, <<>>)

StrArg(s) == Arg("string", 0, 0, s)

\* strconv.AppendFloat(buf, v, 'g', -1, 64) for a positive value with shortest
\* digits d (as a number) and decimal point dp: %e form when the exponent
\* dp-1 is below -4 or at least 21, else %f form with the digits needed.
RECURSIVE Zeros(_)
Zeros(n) == IF n <= 0 THEN <<>> ELSE <<"0">> \o Zeros(n - 1)

AppendFloat(d, dp) ==
  LET ds == NatText(d)
      nd == Len(ds)
      ex == dp - 1
  IN IF d = 0 THEN <<"0">>
     ELSE IF ex < -4 \/ ex >= 21
       THEN <<ds[1]>> \o (IF nd > 1 THEN <<".">> \o SubSeq(ds, 2, nd) ELSE <<>>)
            \o <<"e">> \o (IF ex < 0 THEN <<"-">> ELSE <<"+">>)
            \o (IF (IF ex < 0 THEN -ex ELSE ex) < 10 THEN <<"0">> ELSE <<>>)
            \o NatText(IF ex < 0 THEN -ex ELSE ex)
     ELSE IF dp <= 0 THEN <<"0", ".">> \o Zeros(-dp) \o ds
     ELSE IF dp >= nd THEN ds \o Zeros(dp - nd)
     ELSE SubSeq(ds, 1, dp) \o <<".">> \o SubSeq(ds, dp + 1, nd)

\* ------------------------------------------------------------ escapeValue
\* The bytes escapeValue writes for one byte of the value.  The Go literals
\* "\\\\0", "\\\\n", "\\\\r", "\\\\Z" and "\\\\'" are each two backslashes
\* and a letter; "\\\"" is a backslash and a double quote; "\\\\" is two
\* backslashes.
escapeByte(ch) ==
  CASE ch = "NUL" -> <<"\\", "\\", "0">>
    [] ch = "LF" -> <<"\\", "\\", "n">>
    [] ch = "CR" -> <<"\\", "\\", "r">>
    [] ch = "SUB" -> <<"\\", "\\", "Z">>
    [] ch = "'" -> <<"\\", "\\", "'">>
    [] ch = "\"" -> <<"\\", "\"">>
    [] ch = "\\" -> <<"\\", "\\">>
    [] OTHER -> <<ch>>

RECURSIVE escapeValue(_)
escapeValue(v) ==
  IF v = <<>> THEN <<>> ELSE escapeByte(Head(v)) \o escapeValue(Tail(v))

\* -------------------------------------------------------- interpolateParams
Skip == [err |-> "ErrSkip", text |-> <<>>]

\* The kinds the switch of interpolateParams has a case for (nil is handled
\* before the switch).
InterpolateKinds ==
  {"nil", "int8", "int16", "int32", "int64", "float64", "bool", "time", "string"}

\* The literal interpolateParams appends for one argument of such a kind.
Literal(a) ==
  CASE a.kind = "nil" -> <<"N", "U", "L", "L">>
    [] a.kind \in {"int8", "int16", "int32", "int64"} -> AppendInt(a.i)
    [] a.kind = "float64" -> AppendFloat(a.i, a.j)
    [] a.kind = "bool" -> IF a.i = 1 THEN <<"1">> ELSE <<"0">>
    [] a.kind = "time" -> AppendInt(a.i)
    [] a.kind = "string" -> <<"'">> \o escapeValue(a.s) \o <<"'">>

\* The loop with arg := args[0] for arg := args[argPos]: every placeholder
\* gets the first argument.
RECURSIVE interpolateLoopFirstArg(_, _, _, _)
interpolateLoopFirstArg(query, args, buf, argPos) ==
  IF query = <<>> THEN
    IF argPos # Len(args) THEN Skip ELSE [err |-> "nil", text |-> buf]
  ELSE IF Head(query) # "?" THEN
    interpolateLoopFirstArg(Tail(query), args, Append(buf, Head(query)), argPos)
  ELSE
    LET arg == args[1]
    IN IF arg.kind \notin InterpolateKinds THEN Skip
       ELSE interpolateLoopFirstArg(Tail(query), args, buf \o Literal(arg), argPos + 1)

\* The loop of interpolateParams from byte i of the query on, with the
\* buffer buf and argPos arguments consumed.
RECURSIVE interpolateLoop(_, _, _, _)
interpolateLoop(query, args, buf, argPos) ==
  IF query = <<>> THEN
    IF argPos # Len(args) THEN Skip ELSE [err |-> "nil", text |-> buf]
  ELSE IF Head(query) # "?" THEN
    interpolateLoop(Tail(query), args, Append(buf, Head(query)), argPos)
  ELSE
    LET arg == args[argPos + 1]
    IN IF arg.kind \notin InterpolateKinds THEN Skip
       ELSE interpolateLoop(Tail(query), args, buf \o Literal(arg), argPos + 1)

interpolateParams(query, args) ==
  IF Count(query, "?") # Len(args) THEN Skip
  ELSE interpolateLoop(query, args, <<>>, 0)

\* ------------------------------------------------------------- stmt.start
\* The kinds the type switch of start has a case for; a nil argument has no
\* case and falls to default.
BindKinds ==
  {"int8", "int16", "int32", "int64", "float64", "bool", "time", "string"}

\* The native bind call start makes for a kind.
BindCall(kind) ==
  CASE kind = "int8" -> "duckdb_bind_int8"
    [] kind = "int16" -> "duckdb_bind_int16"
    [] kind = "int32" -> "duckdb_bind_int32"
    [] kind = "int64" -> "duckdb_bind_int64"
    [] kind = "float64" -> "duckdb_bind_double"
    [] kind = "bool" -> "duckdb_bind_boolean"
    [] kind = "time" -> "duckdb_bind_timestamp"
    [] kind = "string" -> "duckdb_bind_varchar"

\* time.Time.UnixMicro()
UnixMicro(a) == a.i * 1000000 + (a.j \div 1000)

\* The loop of start over args[i..]: binds are the native bind calls made so
\* far; the engine rejects the bind of argument failAt (0: none).
RECURSIVE startLoop(_, _, _, _)
startLoop(args, i, failAt, binds) ==
  IF i > Len(args) THEN [err |-> "nil", binds |-> binds, msg |-> <<>>]
  ELSE IF args[i].kind \notin BindKinds
    THEN [err |-> "ErrSkip", binds |-> binds, msg |-> <<>>]
  ELSE
    LET call == [fn |-> BindCall(args[i].kind), pos |-> i,
                 val |-> IF args[i].kind = "time"
                           THEN Arg("micros", UnixMicro(args[i]), 0, <<>>)
                           ELSE args[i]]
    IN IF i = failAt
         THEN [err |-> "errCouldNotBind", binds |-> Append(binds, call), msg |-> <<>>]
         ELSE startLoop(args, i + 1, failAt, Append(binds, call))

\* fmt.Errorf("incorrect argument count for command: have %d want %d", have,
\* want): the two verbs of the message with what they print.
Errorf(have, want) == <<"have">> \o AppendInt(have) \o <<"want">> \o AppendInt(want)

\* start with the test of the argument count left out.
startNoCountTest(nparams, args, failAt) == startLoop(args, 1, failAt, <<>>)

\* start: nparams is what NumInput reads from the native handle.
start(nparams, args, failAt) ==
  IF nparams # Len(args)
    THEN [err |-> "argcount", binds |-> <<>>, msg |-> Errorf(Len(args), nparams)]
    ELSE startLoop(args, 1, failAt, <<>>)

\* ------------------------------------------------------- native results
\* DUCKDB_TYPE tags of duckdb.h.  Next has a case for INVALID and for
\* each of DecodedTags, and none for OtherTags.
DecodedTags ==
  {"BOOLEAN", "TINYINT", "SMALLINT", "INTEGER", "BIGINT", "FLOAT", "DOUBLE",
   "DATE", "VARCHAR", "TIMESTAMP"}

OtherTags == {"TIME", "INTERVAL", "HUGEINT", "BLOB"}

NativeTags == {"INVALID"} \cup DecodedTags \cup OtherTags

\* A native result: row count n, the column type tags, and ts, the
\* duckdb_timestamp (microseconds since the epoch) in its TIMESTAMP cells.
ResultOf(n, cols, ts) == [n |-> n, cols |-> cols, ts |-> ts]

Result(n, cols) == ResultOf(n, cols, 0)

AllResults == {Result(n, cols) : n \in 0..MaxRows, cols \in SeqsUpTo(NativeTags, MaxCols)}

\* The host type of the value the switch of Next stores for a tag.
NextHostType(tag) ==
  CASE tag = "BOOLEAN" -> "bool"
    [] tag = "TINYINT" -> "int8"
    [] tag = "SMALLINT" -> "int16"
    [] tag = "INTEGER" -> "int32"
    [] tag = "BIGINT" -> "int64"
    [] tag = "FLOAT" -> "float32"
    [] tag = "DOUBLE" -> "float64"
    [] tag = "DATE" -> "time.Time"
    [] tag = "VARCHAR" -> "string"
    [] tag = "TIMESTAMP" -> "time.Time"

\* The tags the switch of Next has a value case for.
NextCases == DecodedTags

\* dst[i] after Next ran the switch for column i at offset off: the cell read
\* from the native column buffer, or dst[i] left as the caller passed it.
NoTime == [sec |-> 0, nsec |-> 0]

Untouched == [type |-> "untouched", col |-> 0, off |-> 0, val |-> NoTime]

\* C.duckdb_from_timestamp(ts): the date (as days since the epoch) and the
\* time of day with its microsecond within the second.
duckdb_from_timestamp(micros) ==
  LET secs == micros \div 1000000
  IN [days |-> secs \div 86400,
      hour |-> (secs % 86400) \div 3600,
      min |-> (secs % 3600) \div 60,
      sec |-> secs % 60,
      micros |-> micros % 1000000]

\* time.Date(year, month, day, hour, min, sec, nsec, time.UTC) as seconds
\* since the epoch and nanoseconds within the second.
timeDate(days, hour, min, sec, nsec) ==
  [sec |-> days * 86400 + hour * 3600 + min * 60 + sec + (nsec \div 1000000000),
   nsec |-> nsec % 1000000000]

\* case C.DUCKDB_TYPE_TIMESTAMP of Next: val.time.micros is passed as the
\* nsec argument of time.Date.
NextTimestamp(ts) ==
  LET val == duckdb_from_timestamp(ts)
  IN timeDate(val.days, val.hour, val.min, val.sec, val.micros)

Decode(tag, col, off, ts) ==
  IF tag \in NextCases
    THEN [type |-> NextHostType(tag), col |-> col, off |-> off,
          val |-> IF tag = "TIMESTAMP" THEN NextTimestamp(ts) ELSE NoTime]
    ELSE Untouched

\* The first column whose switch case returns errInvalidType (ncols+1: none).
RECURSIVE FirstInvalid(_, _)
FirstInvalid(cols, i) ==
  IF i > Len(cols) THEN i
  ELSE IF cols[i] = "INVALID" THEN i ELSE FirstInvalid(cols, i + 1)

\* reflect type of ColumnTypeScanType, "" for nil
ScanType(tag) ==
  CASE tag = "BOOLEAN" -> "bool"
    [] tag = "TINYINT" -> "int8"
    [] tag = "SMALLINT" -> "int16"
    [] tag = "INTEGER" -> "int"
    [] tag = "BIGINT" -> "int64"
    [] tag = "FLOAT" -> "float32"
    [] tag = "DOUBLE" -> "float64"
    [] tag \in {"DATE", "TIMESTAMP"} -> "time.Time"
    [] tag = "VARCHAR" -> "string"
    [] OTHER -> ""

DatabaseTypeName(tag) ==
  CASE tag = "BOOLEAN" -> "BOOLEAN"
    [] tag = "TINYINT" -> "TINYINT"
    [] tag = "SMALLINT" -> "SMALLINT"
    [] tag = "INTEGER" -> "INT"
    [] tag = "BIGINT" -> "BIGINT"
    [] tag = "FLOAT" -> "FLOAT"
    [] tag = "DOUBLE" -> "DOUBLE"
    [] tag = "DATE" -> "DATE"
    [] tag = "VARCHAR" -> "VARCHAR"
    [] tag = "TIMESTAMP" -> "TIMESTAMP"
    [] OTHER -> ""

\* ------------------------------------------------------------ duckdb.Open
\* strings.IndexRune(s, ch): the index (from 0) of the first ch, or -1.
RECURSIVE IndexRuneFrom(_, _, _)
IndexRuneFrom(s, ch, i) ==
  IF i > Len(s) THEN -1
  ELSE IF s[i] = ch THEN i - 1
  ELSE IndexRuneFrom(s, ch, i + 1)

IndexRune(s, ch) == IndexRuneFrom(s, ch, 1)

\* url.QueryUnescape for texts with no % escape: "+" stands for a space.
RECURSIVE QueryUnescape(_)
QueryUnescape(v) ==
  IF v = <<>> THEN <<>>
  ELSE <<IF Head(v) = "+" THEN " " ELSE Head(v)>> \o QueryUnescape(Tail(v))

\* url.ParseQuery: the key and value of each non-empty piece between "&",
\* in order; a piece is cut at its first "=", and one with no "=" is a key
\* with the empty value.
RECURSIVE ParseQuery(_)
ParseQuery(query) ==
  IF query = <<>> THEN <<>>
  ELSE LET amp == IndexRune(query, "&")
           piece == IF amp = -1 THEN query ELSE SubSeq(query, 1, amp)
           rest == IF amp = -1 THEN <<>> ELSE SubSeq(query, amp + 2, Len(query))
           eq == IndexRune(piece, "=")
           pair == IF eq = -1
                     THEN [key |-> QueryUnescape(piece), value |-> <<>>]
                     ELSE [key |-> QueryUnescape(SubSeq(piece, 1, eq)),
                           value |-> QueryUnescape(SubSeq(piece, eq + 2, Len(piece)))]
       IN IF piece = <<>> THEN ParseQuery(rest) ELSE <<pair>> \o ParseQuery(rest)

\* url.Values.Get(key): the first value of the key, or the empty text.
RECURSIVE Get(_, _)
Get(params, key) ==
  IF params = <<>> THEN <<>>
  ELSE IF Head(params).key = <<key>> THEN Head(params).value
  ELSE Get(Tail(params), key)

\* The flags Open looks for, in the order it sets them.
ConfigFlags == <<"access_mode", "threads", "max_memory", "default_order">>

\* The setConfig calls of Open for the parsed parameters, flags k.. on.
RECURSIVE setConfigCalls(_, _)
setConfigCalls(params, k) ==
  IF k > Len(ConfigFlags) THEN <<>>
  ELSE LET val == Get(params, ConfigFlags[k])
       IN (IF val # <<>> THEN <<[flag |-> ConfigFlags[k], value |-> val]>> ELSE <<>>)
            \o setConfigCalls(params, k + 1)

\* The test of Open that a parameter portion follows a path.
HasParams(pos) == pos >= 1

\* What Open passes to the engine for a dsn: the duckdb_set_config calls and
\* the name given to duckdb_open_ext.
OpenArgs(dsn) ==
  LET pos == IndexRune(dsn, "?")
  IN IF HasParams(pos)
       THEN [config |-> setConfigCalls(ParseQuery(SubSeq(dsn, pos + 2, Len(dsn))), 1),
             path |-> SubSeq(dsn, 1, pos)]
       ELSE [config |-> <<>>, path |-> dsn]

\* The engine's side of an open Connection: the name and the configuration
\* its database was opened with, and how often its connection was
\* disconnected and its database closed.
NativeOpened(path, config) ==
  [disconnects |-> 0, closes |-> 0, path |-> path, config |-> config]

\* ------------------------------------------------------------ the objects
\* &stmt{c: c, stmt: &s}: nparams is what duckdb_nparams reads from the
\* handle; destroyed counts the duckdb_destroy_prepare calls on it.
NewStmt(np) == [closed |-> FALSE, rows |-> FALSE, nparams |-> np, destroyed |-> 0]

\* &duckdbRows{r: res, s: s}: s = 0 is a nil statement.  freed counts the
\* duckdb_destroy_result calls on the buffer; origin, returned and reads are
\* history: the statement whose Query made the cursor and the arguments it
\* bound, the rows the Next calls stored in dst, and the native column
\* buffer cells they read.
NewRows(res, s) ==
  [r |-> "res", s |-> s, cursor |-> 0, res |-> res, freed |-> 0,
   origin |-> s, args |-> <<>>, returned |-> <<>>, reads |-> {}]

\* What a call returned: out is "ok", "panic" or the error; off the cursor
\* offset a Next call found; sent the texts the call passed to duckdb_query;
\* val a returned name; binds the native bind calls the call made; bad the
\* native calls it made on a released or NULL handle; leaked the result
\* buffers it got from the engine and left unreleased with no cursor owning
\* them; query and args what the call was called with; msg the counts an
\* argument count error prints; index the column a lookup was asked for.
Ret(op, id, out) ==
  [op |-> op, id |-> id, out |-> out, off |-> 0, sent |-> <<>>, val |-> "",
   binds |-> <<>>, bad |-> {}, leaked |-> 0, query |-> <<>>, args |-> <<>>,
   msg |-> <<>>, index |-> 0]

EngineOutcomes == {"ok", "error"}

BeginText == <<"B", "E", "G", "I", "N", " ", "T", "R", "A", "N", "S", "A", "C", "T", "I", "O", "N">>

CommitText == <<"C", "O", "M", "M", "I", "T", " ", "T", "R", "A", "N", "S", "A", "C", "T", "I", "O", "N">>

RollbackText == <<"R", "O", "L", "L", "B", "A", "C", "K">>

\* ------------------------------------------------------------ duckdbRows
\* The end-of-data test of Next, and the test with > for >=.
AtEndOffByOne(cursor, rowCount) == cursor > rowCount

AtEnd(cursor, rowCount) == cursor >= rowCount

\* r.cursor++, and the increment left out.
AdvanceNot(cursor) == cursor

Advance(cursor) == cursor + 1

\* func (r *duckdbRows) Columns() []string
RowsColumns(j) ==
  /\ j \in DOMAIN rows
  /\ last' = Ret("rows.Columns", j, IF rows[j].r = "nil" THEN "panic" ELSE "ok")
  /\ UNCHANGED <<c, stmts, rows, txs, native, thr, mu>>

\* Next with r.cursor++ moved before the loop over the columns.
RowsNextAdvanceFirst(j) ==
  /\ j \in DOMAIN rows
  /\ LET r == rows[j]
         cols == r.res.cols
         stop == FirstInvalid(cols, 1)
         read == {[col |-> i, off |-> r.cursor] :
                    i \in {k \in 1..(stop - 1) : cols[k] \in NextCases}}
         dst == [i \in 1..Len(cols) |-> Decode(cols[i], i, r.cursor, r.res.ts)]
     IN IF r.r = "nil" THEN
          /\ last' = Ret("rows.Next", j, "panic")
          /\ UNCHANGED rows
        ELSE IF AtEnd(r.cursor, r.res.n) THEN
          /\ last' = [Ret("rows.Next", j, "io.EOF") EXCEPT !.off = r.cursor]
          /\ UNCHANGED rows
        ELSE IF stop <= Len(cols) THEN
          /\ last' = [Ret("rows.Next", j, "errInvalidType") EXCEPT !.off = r.cursor]
          /\ rows' = [rows EXCEPT ![j].reads = @ \cup read, ![j].cursor = Advance(@)]
        ELSE
          /\ last' = [Ret("rows.Next", j, "ok") EXCEPT !.off = r.cursor]
          /\ rows' = [rows EXCEPT ![j].reads = @ \cup read,
                                  ![j].returned = Append(@, dst),
                                  ![j].cursor = Advance(@)]
  /\ UNCHANGED <<c, stmts, txs, native, thr, mu>>

\* func (r *duckdbRows) Next(dst []driver.Value) error
RowsNext(j) ==
  /\ j \in DOMAIN rows
  /\ LET r == rows[j]
         cols == r.res.cols
         stop == FirstInvalid(cols, 1)
         read == {[col |-> i, off |-> r.cursor] :
                    i \in {k \in 1..(stop - 1) : cols[k] \in NextCases}}
         dst == [i \in 1..Len(cols) |-> Decode(cols[i], i, r.cursor, r.res.ts)]
     IN IF r.r = "nil" THEN
          /\ last' = Ret("rows.Next", j, "panic")
          /\ UNCHANGED rows
        ELSE IF AtEnd(r.cursor, r.res.n) THEN
          /\ last' = [Ret("rows.Next", j, "io.EOF") EXCEPT !.off = r.cursor]
          /\ UNCHANGED rows
        ELSE IF stop <= Len(cols) THEN
          /\ last' = [Ret("rows.Next", j, "errInvalidType") EXCEPT !.off = r.cursor]
          /\ rows' = [rows EXCEPT ![j].reads = @ \cup read]
        ELSE
          /\ last' = [Ret("rows.Next", j, "ok") EXCEPT !.off = r.cursor]
          /\ rows' = [rows EXCEPT ![j].reads = @ \cup read,
                                  ![j].returned = Append(@, dst),
                                  ![j].cursor = Advance(@)]
  /\ UNCHANGED <<c, stmts, txs, native, thr, mu>>

\* C.duckdb_column_type(r.r, index) as the two lookups call it, with no test
\* of r.r: on a closed cursor r.r is nil, and for a NULL result, as for an
\* index past the last column, the engine answers DUCKDB_TYPE_INVALID.
ColumnTypeTag(r, index) ==
  IF r.r = "nil" \/ index > Len(r.res.cols) THEN "INVALID"
  ELSE r.res.cols[index]

ColumnTypeBadCalls(r) == IF r.r = "nil" THEN {"duckdb_column_type(NULL)"} ELSE {}

\* func (r *duckdbRows) ColumnTypeScanType(index int) reflect.Type
RowsColumnTypeScanType(j, index) ==
  /\ j \in DOMAIN rows
  /\ last' = [Ret("rows.ColumnTypeScanType", j, "ok")
                EXCEPT !.val = ScanType(ColumnTypeTag(rows[j], index)),
                       !.bad = ColumnTypeBadCalls(rows[j]), !.index = index]
  /\ UNCHANGED <<c, stmts, rows, txs, native, thr, mu>>

\* func (r *duckdbRows) ColumnTypeDatabaseTypeName(index int) string
RowsColumnTypeDatabaseTypeName(j, index) ==
  /\ j \in DOMAIN rows
  /\ last' = [Ret("rows.ColumnTypeDatabaseTypeName", j, "ok")
                EXCEPT !.val = DatabaseTypeName(ColumnTypeTag(rows[j], index)),
                       !.bad = ColumnTypeBadCalls(rows[j]), !.index = index]
  /\ UNCHANGED <<c, stmts, rows, txs, native, thr, mu>>

\* func (r *duckdbRows) Close() error
RowsClose(j) ==
  /\ j \in DOMAIN rows
  /\ LET r == rows[j]
     IN IF r.r = "nil" THEN
          /\ last' = Ret("rows.Close", j, "panic")
          /\ UNCHANGED <<rows, stmts>>
        ELSE
          /\ last' = Ret("rows.Close", j, "ok")
          /\ rows' = [rows EXCEPT ![j].freed = @ + 1, ![j].r = "nil", ![j].s = 0]
          /\ stmts' = IF r.s # 0 THEN [stmts EXCEPT ![r.s].rows = FALSE] ELSE stmts
  /\ UNCHANGED <<c, txs, native, thr, mu>>

\* ------------------------------------------------------------------ stmt
\* The two tests that open Exec and Query: each panics.  And the tests
\* with the one of s.rows left out.
RefusedOnlyClosed(s) == s.closed

Refused(s) == s.closed \/ s.rows

\* The double-Close test of stmt.Close, and the test left out.
AlreadyClosedNot(s) == FALSE

AlreadyClosed(s) == s.closed

\* func (s *stmt) Close() error, run alone
StmtClose(i) ==
  /\ i \in DOMAIN stmts
  /\ LET s == stmts[i]
     IN IF s.rows THEN
          /\ last' = Ret("stmt.Close", i, "error: Close with active Rows")
          /\ UNCHANGED stmts
        ELSE IF AlreadyClosed(s) THEN
          /\ last' = Ret("stmt.Close", i, "error: double Close of Stmt")
          /\ UNCHANGED stmts
        ELSE
          /\ last' = Ret("stmt.Close", i, "ok")
          /\ stmts' = [stmts EXCEPT ![i].closed = TRUE, ![i].destroyed = @ + 1]
  /\ UNCHANGED <<c, rows, txs, native, thr, mu>>

\* func (s *stmt) NumInput() int: duckdb_nparams on the handle, whatever its
\* state
StmtNumInput(i) ==
  /\ i \in DOMAIN stmts
  /\ last' = [Ret("stmt.NumInput", i, "ok")
                EXCEPT !.bad = IF stmts[i].destroyed > 0
                                 THEN {"duckdb_nparams(released)"} ELSE {}]
  /\ UNCHANGED <<c, stmts, rows, txs, native, thr, mu>>

\* func (s *stmt) Exec(args []driver.Value) (driver.Result, error), run
\* alone.  eng is what duckdb_execute_prepared reports.  On DuckDBError the
\* function returns before its defer of duckdb_destroy_result is set up.
StmtExec(i, args, failAt, eng) ==
  /\ i \in DOMAIN stmts
  /\ LET s == stmts[i]
         st == start(s.nparams, args, failAt)
     IN IF Refused(s) THEN
          last' = [Ret("stmt.Exec", i, "panic") EXCEPT !.args = args]
        ELSE IF st.err # "nil" THEN
          last' = [Ret("stmt.Exec", i, st.err)
                     EXCEPT !.binds = st.binds, !.msg = st.msg, !.args = args]
        ELSE IF eng = "error" THEN
          last' = [Ret("stmt.Exec", i, "engine error")
                     EXCEPT !.binds = st.binds, !.leaked = 1, !.args = args]
        ELSE
          last' = [Ret("stmt.Exec", i, "ok") EXCEPT !.binds = st.binds, !.args = args]
  /\ UNCHANGED <<c, stmts, rows, txs, native, thr, mu>>

\* func (s *stmt) Query(args []driver.Value) (driver.Rows, error), run alone.
\* s.rows is set before duckdb_execute_prepared is called.
StmtQuery(i, args, failAt, eng, res) ==
  /\ i \in DOMAIN stmts
  /\ LET s == stmts[i]
         st == start(s.nparams, args, failAt)
     IN IF Refused(s) THEN
          /\ last' = [Ret("stmt.Query", i, "panic") EXCEPT !.args = args]
          /\ UNCHANGED <<stmts, rows>>
        ELSE IF st.err # "nil" THEN
          /\ last' = [Ret("stmt.Query", i, st.err)
                        EXCEPT !.binds = st.binds, !.msg = st.msg, !.args = args]
          /\ UNCHANGED <<stmts, rows>>
        ELSE IF eng = "error" THEN
          /\ last' = [Ret("stmt.Query", i, "engine error")
                        EXCEPT !.binds = st.binds, !.leaked = 1, !.args = args]
          /\ stmts' = [stmts EXCEPT ![i].rows = TRUE]
          /\ UNCHANGED rows
        ELSE
          /\ Len(rows) < MaxCursors
          /\ last' = [Ret("stmt.Query", i, "ok") EXCEPT !.binds = st.binds, !.args = args]
          /\ stmts' = [stmts EXCEPT ![i].rows = TRUE]
          /\ rows' = Append(rows, [NewRows(res, i) EXCEPT !.args = args])
  /\ UNCHANGED <<c, txs, native, thr, mu>>

\* ------------------------------------------------------------------ conn
\* The native calls c.exec makes on a released connection handle: exec does
\* not look at c.db.
execBadCalls == IF c.db = "nil" THEN {"duckdb_query(released)"} ELSE {}

\* func (c *conn) Exec(query string, args []driver.Value): args is not used
ConnExec(query, args, eng) ==
  /\ last' = [Ret("conn.Exec", 0, IF eng = "error" THEN "engine error" ELSE "ok")
                EXCEPT !.sent = <<query>>, !.bad = execBadCalls,
                       !.leaked = IF eng = "error" THEN 1 ELSE 0,
                       !.query = query, !.args = args]
  /\ UNCHANGED <<c, stmts, rows, txs, native, thr, mu>>

\* func (c *conn) Query(query string, args []driver.Value), that is c.query
ConnQuery(query, args, eng, res) ==
  LET ip == interpolateParams(query, args)
  IN /\ IF ip.err # "nil" THEN
          /\ last' = [Ret("conn.Query", 0, ip.err)
                        EXCEPT !.query = query, !.args = args]
          /\ UNCHANGED rows
        ELSE IF eng = "error" THEN
          /\ last' = [Ret("conn.Query", 0, "engine error")
                        EXCEPT !.sent = <<ip.text>>, !.bad = execBadCalls, !.leaked = 1,
                               !.query = query, !.args = args]
          /\ UNCHANGED rows
        ELSE
          /\ Len(rows) < MaxCursors
          /\ last' = [Ret("conn.Query", 0, "ok")
                        EXCEPT !.sent = <<ip.text>>, !.bad = execBadCalls,
                               !.query = query, !.args = args]
          /\ rows' = Append(rows, NewRows(res, 0))
     /\ UNCHANGED <<c, stmts, txs, native, thr, mu>>

\* func (c *conn) Prepare(cmd string): the result of duckdb_prepare is not
\* looked at; np is the parameter count of cmd
ConnPrepare(np) ==
  /\ Len(stmts) < MaxStmts
  /\ last' = [Ret("conn.Prepare", 0, "ok")
                EXCEPT !.bad = IF c.db = "nil" THEN {"duckdb_prepare(released)"} ELSE {}]
  /\ stmts' = Append(stmts, NewStmt(np))
  /\ UNCHANGED <<c, rows, txs, native, thr, mu>>

\* func (c *conn) Begin(): the result buffer c.exec returns is dropped
ConnBegin(eng) ==
  /\ IF eng = "error" THEN
       /\ last' = [Ret("conn.Begin", 0, "engine error")
                     EXCEPT !.sent = <<BeginText>>, !.bad = execBadCalls, !.leaked = 1]
       /\ UNCHANGED txs
     ELSE
       /\ Len(txs) < MaxTxs
       /\ last' = [Ret("conn.Begin", 0, "ok")
                     EXCEPT !.sent = <<BeginText>>, !.bad = execBadCalls, !.leaked = 1]
       /\ txs' = Append(txs, [c |-> "conn"])
  /\ UNCHANGED <<c, stmts, rows, native, thr, mu>>

\* func (c *conn) Close() error, run alone
ConnClose ==
  /\ IF c.db = "nil" THEN
       /\ last' = Ret("conn.Close", 0, "error: already closed")
       /\ UNCHANGED <<c, native>>
     ELSE
       /\ last' = Ret("conn.Close", 0, "ok")
       /\ c' = [c EXCEPT !.db = "nil"]
       /\ native' = [native EXCEPT !.disconnects = @ + 1, !.closes = @ + 1]
  /\ UNCHANGED <<stmts, rows, txs, thr, mu>>

\* ---------------------------------------------------------------- duckdbTx
\* Commit and Rollback with t.c = nil done only when exec returned no error.
TxEndClearsOnSuccess(op, k, text, eng) ==
  /\ k \in DOMAIN txs
  /\ IF txs[k].c = "nil" THEN
       /\ last' = Ret(op, k, "panic")
       /\ UNCHANGED txs
     ELSE
       /\ last' = [Ret(op, k, IF eng = "error" THEN "engine error" ELSE "ok")
                     EXCEPT !.sent = <<text>>, !.bad = execBadCalls, !.leaked = 1]
       /\ txs' = IF eng = "error" THEN txs ELSE [txs EXCEPT ![k].c = "nil"]
  /\ UNCHANGED <<c, stmts, rows, native, thr, mu>>

\* Commit and Rollback: t.c.exec(text), then t.c = nil.  With t.c already
\* nil, exec panics on *c.con before it calls the engine.
TxEnd(op, k, text, eng) ==
  /\ k \in DOMAIN txs
  /\ IF txs[k].c = "nil" THEN
       /\ last' = Ret(op, k, "panic")
       /\ UNCHANGED txs
     ELSE
       /\ last' = [Ret(op, k, IF eng = "error" THEN "engine error" ELSE "ok")
                     EXCEPT !.sent = <<text>>, !.bad = execBadCalls, !.leaked = 1]
       /\ txs' = [txs EXCEPT ![k].c = "nil"]
  /\ UNCHANGED <<c, stmts, rows, native, thr, mu>>

TxCommit(k, eng) == TxEnd("tx.Commit", k, CommitText, eng)

TxRollback(k, eng) == TxEnd("tx.Rollback", k, RollbackText, eng)

\* ------------------------------------------------- sequential histories
\* One Connection as duckdb.Open returned it, and the exported operations of
\* the Connection, its Statements and their cursors called by one caller,
\* each call running to its return.
IdleThreads == [t \in 1..NThreads |-> [pc |-> "idle", pre |-> TRUE, bad |-> {}]]

Init ==
  /\ c = [db |-> "open"]
  /\ stmts = <<>>
  /\ rows = <<>>
  /\ txs = <<>>
  /\ native = NativeOpened(<<>>, <<>>)
  /\ last = Ret("Open", 0, "ok")
  /\ thr = IdleThreads
  /\ mu = [c |-> 0, s |-> 0]

LifeQueries == {<<"?">>}

LifeArgs == {<<>>, <<IntArg("int64", 1)>>, <<OtherArg>>}

LifeResults == {Result(1, <<"INTEGER">>)}

Next ==
  \/ \E np \in 0..MaxParams : ConnPrepare(np)
  \/ \E q \in LifeQueries, a \in LifeArgs, e \in EngineOutcomes : ConnExec(q, a, e)
  \/ \E q \in LifeQueries, a \in LifeArgs, e \in EngineOutcomes, res \in LifeResults :
       ConnQuery(q, a, e, res)
  \/ \E e \in EngineOutcomes : ConnBegin(e)
  \/ ConnClose
  \/ \E i \in DOMAIN stmts : StmtClose(i)
  \/ \E i \in DOMAIN stmts : StmtNumInput(i)
  \/ \E i \in DOMAIN stmts, a \in LifeArgs, e \in EngineOutcomes :
       \E f \in 0..Len(a) : StmtExec(i, a, f, e)
  \/ \E i \in DOMAIN stmts, a \in LifeArgs, e \in EngineOutcomes, res \in LifeResults :
       \E f \in 0..Len(a) : StmtQuery(i, a, f, e, res)
  \/ \E j \in DOMAIN rows : RowsColumns(j)
  \/ \E j \in DOMAIN rows : RowsNext(j)
  \/ \E j \in DOMAIN rows, index \in 1..MaxCols : RowsColumnTypeScanType(j, index)
  \/ \E j \in DOMAIN rows, index \in 1..MaxCols : RowsColumnTypeDatabaseTypeName(j, index)
  \/ \E j \in DOMAIN rows : RowsClose(j)

Spec == Init /\ [][Next]_vars

\* ------------------------------------------------------------ the claims
\* The open cursors bound to statement i.
OpenCursorsOf(i) == {j \in DOMAIN rows : rows[j].r = "res" /\ rows[j].s = i}

ErrorOuts ==
  {"argcount", "errCouldNotBind", "ErrSkip", "engine error",
   "error: Close with active Rows", "error: double Close of Stmt",
   "error: already closed"}

StmtOps == {"stmt.Close", "stmt.Exec", "stmt.Query"}

\* The step is a Close, Exec or Query of statement i made while a cursor of
\* i is open: it fails and changes neither the statement nor the cursors.
C1_RefusedWhileOpen(i) ==
  (OpenCursorsOf(i) # {} /\ last'.op \in StmtOps /\ last'.id = i)
    => /\ last'.out \in {"panic", "error: Close with active Rows"}
       /\ stmts' = stmts
       /\ rows' = rows

\* The step is a Close, Exec or Query of statement i made right after the
\* Close of i's cursor returned: Close succeeds, Exec and Query do not panic.
C1_AcceptedAfterClose(i) ==
  (/\ last.op = "rows.Close" /\ last.out = "ok"
   /\ rows[last.id].origin = i
   /\ last'.op \in StmtOps /\ last'.id = i)
    => /\ last'.op = "stmt.Close" => last'.out = "ok"
       /\ last'.out # "panic"

C1_Cursors ==
  \A i \in DOMAIN stmts :
    /\ Cardinality(OpenCursorsOf(i)) <= 1
    /\ stmts[i].closed => OpenCursorsOf(i) = {}

\* C1: in a sequential history, while a cursor a Query returned is open,
\* Close, Exec and Query of its Statement fail; right after the cursor is
\* closed, Close of the Statement succeeds and Exec and Query are accepted;
\* a Statement never has two open cursors, a closed Statement has none.
C1_StatementCursorDiscipline ==
  /\ []C1_Cursors
  /\ [][\A i \in DOMAIN stmts : C1_RefusedWhileOpen(i) /\ C1_AcceptedAfterClose(i)]_vars

\* A Statement was closed after its cursor was closed, and a Close was
\* refused while that cursor was open.
C1_Witness ==
  \E i \in DOMAIN stmts :
    /\ stmts[i].closed
    /\ last.op = "stmt.Close" /\ last.out = "ok"
    /\ \E j \in DOMAIN rows : rows[j].origin = i /\ rows[j].r = "nil"

\* C2: when Exec or Query of a Statement returns an error, the Statement is
\* not closed and its has-open-cursor flag is false; the flag is true only
\* while a cursor that Query handed back is open.
C2_ErrorLeavesStatementOpen ==
  /\ (last.op \in {"stmt.Exec", "stmt.Query"} /\ last.out \in ErrorOuts)
       => (~stmts[last.id].closed /\ ~stmts[last.id].rows)
  /\ \A i \in DOMAIN stmts : stmts[i].rows => OpenCursorsOf(i) # {}

\* C5: in a sequential history, an operation called on an object whose
\* native handle was released panics or returns an error, and no call makes
\* a native call on a released or NULL handle.
C5_UseAfterReleaseDiagnosed ==
  /\ last.bad = {}
  /\ (last.op \in {"conn.Exec", "conn.Query", "conn.Prepare", "conn.Begin"}
        /\ c.db = "nil")
       => last.out \in ErrorOuts \cup {"panic"}
  /\ (last.op \in {"stmt.Exec", "stmt.Query", "stmt.NumInput"}
        /\ stmts[last.id].closed)
       => last.out \in ErrorOuts \cup {"panic"}
  /\ (last.op \in {"rows.Columns", "rows.Next", "rows.ColumnTypeScanType",
                   "rows.ColumnTypeDatabaseTypeName"}
        /\ rows[last.id].r = "nil")
       => last.out \in ErrorOuts \cup {"panic"}

C6_ReleasedOnce ==
  /\ \A i \in DOMAIN stmts :
       stmts[i].destroyed = (IF stmts[i].closed THEN 1 ELSE 0)
  /\ \A j \in DOMAIN rows :
       rows[j].freed = (IF rows[j].r = "nil" THEN 1 ELSE 0)
  /\ native.disconnects = (IF c.db = "nil" THEN 1 ELSE 0)
  /\ native.closes = (IF c.db = "nil" THEN 1 ELSE 0)

\* A Close of an object that is closed already fails and releases nothing.
C6_SecondClose ==
  /\ \A i \in DOMAIN stmts :
       (stmts[i].closed /\ last'.op = "stmt.Close" /\ last'.id = i)
         => (last'.out \in ErrorOuts /\ stmts'[i].destroyed = stmts[i].destroyed)
  /\ \A j \in DOMAIN rows :
       (rows[j].r = "nil" /\ last'.op = "rows.Close" /\ last'.id = j)
         => (last'.out = "panic" /\ rows'[j].freed = rows[j].freed)
  /\ (c.db = "nil" /\ last'.op = "conn.Close")
       => (last'.out \in ErrorOuts /\ native' = native)

\* C6: over any sequence of Close calls, the prepared-statement handle, the
\* result buffer of a cursor and the database and connection handles are
\* each released once, by the first successful Close; a second Close of a
\* Statement or Connection returns an error, a second Close of a cursor
\* panics, and neither releases again.
C6_NoDoubleRelease == []C6_ReleasedOnce /\ [][C6_SecondClose]_vars

\* Each kind of object was closed, and the last call was a second Close.
C6_Witness ==
  /\ c.db = "nil" /\ native.closes = 1
  /\ \E i \in DOMAIN stmts : stmts[i].destroyed = 1
  /\ \E j \in DOMAIN rows : rows[j].freed = 1
  /\ last.op \in {"stmt.Close", "rows.Close", "conn.Close"}
  /\ last.out \in {"error: double Close of Stmt", "panic", "error: already closed"}

\* ------------------------------------------------------ cursors over results
\* One cursor, over any result of up to MaxRows rows and MaxCols columns of
\* any native type, as conn.Query returns it.
SelectText == <<"a">>

NextRows ==
  \/ \E res \in AllResults :
       /\ rows = <<>>
       /\ ConnQuery(SelectText, <<>>, "ok", res)
  \/ \E j \in DOMAIN rows : RowsColumns(j)
  \/ \E j \in DOMAIN rows : RowsNext(j)
  \/ \E j \in DOMAIN rows, index \in 1..MaxCols : RowsColumnTypeScanType(j, index)
  \/ \E j \in DOMAIN rows, index \in 1..MaxCols : RowsColumnTypeDatabaseTypeName(j, index)
  \/ \E j \in DOMAIN rows : RowsClose(j)

SpecRows == Init /\ [][NextRows]_vars

\* The row of a result at offset off, as far as Next decodes it.
RowAt(res, off) == [i \in 1..Len(res.cols) |-> Decode(res.cols[i], i, off, res.ts)]

\* C7: over a result of n rows the successful Next calls return the rows at
\* offsets 0, 1, ... in that order, each once, and there are at most n of
\* them; a Next call at an offset below n succeeds and moves the offset by
\* one (unless a column has the INVALID tag); a Next call at offset n returns
\* end-of-data and leaves the offset at n.
C7_RowsInOrderThenEOF ==
  \A j \in DOMAIN rows :
    LET r == rows[j]
    IN /\ Len(r.returned) = r.cursor
       /\ r.cursor <= r.res.n
       /\ \A k \in 1..Len(r.returned) : r.returned[k] = RowAt(r.res, k - 1)
       /\ (last.op = "rows.Next" /\ last.id = j /\ last.out # "panic") =>
            /\ last.off = r.res.n => (last.out = "io.EOF" /\ r.cursor = r.res.n)
            /\ last.out = "io.EOF" => last.off = r.res.n
            /\ last.out = "ok" => r.cursor = last.off + 1
            /\ (last.off < r.res.n /\ "INVALID" \notin Range(r.res.cols))
                 => last.out = "ok"

\* Every row of a result of at least two rows was returned and the next call
\* returned end-of-data.
C7_Witness ==
  \E j \in DOMAIN rows :
    /\ rows[j].res.n >= 2 /\ rows[j].res.cols # <<>>
    /\ rows[j].cursor = rows[j].res.n
    /\ last.op = "rows.Next" /\ last.id = j /\ last.out = "io.EOF"

C8_InBounds ==
  \A j \in DOMAIN rows :
    /\ rows[j].cursor \in 0..rows[j].res.n
    /\ \A rd \in rows[j].reads : rd.off >= 0 /\ rd.off < rows[j].res.n

\* C8: the cursor offset is within 0..row count, never decreases, and every
\* cell Next reads from a native column buffer is at an offset below the row
\* count.
C8_OffsetBoundedMonotone ==
  /\ []C8_InBounds
  /\ [][\A j \in DOMAIN rows : rows'[j].cursor >= rows[j].cursor]_vars

\* The last row of a result was read from its column buffers.
C8_Witness ==
  \E j \in DOMAIN rows :
    /\ rows[j].res.n >= 2
    /\ rows[j].cursor = rows[j].res.n
    /\ \E rd \in rows[j].reads : rd.off = rows[j].res.n - 1

\* C9: a Next call on a row of a result that has a column whose tag is not
\* one of the ten decoded tags returns errInvalidType and does not report
\* the row as read.
C9_UnsupportedTagIsError ==
  \A j \in DOMAIN rows :
    (/\ last.op = "rows.Next" /\ last.id = j /\ last.out # "panic"
     /\ last.off < rows[j].res.n
     /\ \E i \in DOMAIN rows[j].res.cols : rows[j].res.cols[i] \notin DecodedTags)
      => (last.out = "errInvalidType" /\ rows[j].cursor = last.off)

\* ------------------------------------------------------- the direct path
\* conn.Exec and conn.Query on an open Connection, with any query of up to
\* MaxQueryLen bytes and any list of up to MaxArgs arguments.
QueryBytes == {"a", "?"}

DirectQueries == SeqsUpTo(QueryBytes, MaxQueryLen)

DirectArgValues == {IntArg("int64", 7), StrArg(<<"'">>), OtherArg}

DirectArgs == SeqsUpTo(DirectArgValues, MaxArgs)

NextDirect ==
  \/ \E q \in DirectQueries, a \in DirectArgs, e \in EngineOutcomes : ConnExec(q, a, e)
  \/ \E q \in DirectQueries, a \in DirectArgs, e \in EngineOutcomes, res \in LifeResults :
       ConnQuery(q, a, e, res)
  \/ \E j \in DOMAIN rows : RowsClose(j)

SpecDirect == Init /\ [][NextDirect]_vars

\* C10: the text conn.Exec(query, args) and conn.Query(query, args) submit
\* to the engine is interpolateParams(query, args), and nothing is submitted
\* when interpolateParams returns ErrSkip.
C10_DirectPathSubmitsInterpolated ==
  last.op \in {"conn.Exec", "conn.Query"} =>
    LET ip == interpolateParams(last.query, last.args)
    IN last.sent = (IF ip.err = "nil" THEN <<ip.text>> ELSE <<>>)

\* --------------------------------------------------- concurrent callers
\* NThreads goroutines call the operations of one Connection and of one
\* Statement prepared on it.  A call is a sequence of steps, one for each
\* read or write of a field another call may touch, each native call and
\* each Lock; the steps of different callers interleave.  Only stmt.Close
\* and conn.Close lock the mutex of their object; Exec, Query, Prepare and
\* Begin do not.  thr[t].pc is caller t's position, thr[t].bad the native
\* calls its current (or last) call made on a released handle, thr[t].pre
\* whether the handle that call works on was unreleased when the call began.
InitConc ==
  /\ c = [db |-> "open"]
  /\ stmts = <<NewStmt(0)>>
  /\ rows = <<>>
  /\ txs = <<>>
  /\ native = NativeOpened(<<>>, <<>>)
  /\ last = Ret("conn.Prepare", 0, "ok")
  /\ thr = IdleThreads
  /\ mu = [c |-> 0, s |-> 0]

Goto(t, pc) == thr' = [thr EXCEPT ![t].pc = pc]

GotoBad(t, pc, bad) == thr' = [thr EXCEPT ![t].pc = pc, ![t].bad = @ \cup bad]

\* The call of caller t returns out.
Return(t, op, id, out) ==
  /\ thr' = [thr EXCEPT ![t].pc = "idle"]
  /\ last' = [Ret(op, id, out) EXCEPT !.bad = thr[t].bad]

\* The native calls on the prepared-statement handle after its release.
stmtBadCalls(fn) == IF stmts[1].destroyed > 0 THEN {fn} ELSE {}

\* Caller t begins a call of the Statement (entry Q: Query, E: Exec, SC:
\* Close) or of the Connection (CC: Close, X: an operation that goes to
\* c.exec or duckdb_prepare).
Call(t, entry) ==
  /\ thr[t].pc = "idle"
  /\ thr' = [thr EXCEPT ![t] =
               [pc |-> entry,
                pre |-> IF entry \in {"Q_closed", "E_closed", "SC_lock"}
                          THEN stmts[1].destroyed = 0
                          ELSE native.disconnects = 0,
                bad |-> {}]]
  /\ UNCHANGED <<c, stmts, rows, txs, native, last, mu>>

Entries == {"Q_closed", "E_closed", "SC_lock", "CC_lock", "X_query"}

\* The steps of stmt.Query and, with no s.rows = true and no cursor, of
\* stmt.Exec: the test of s.closed, the test of s.rows, start (which calls
\* duckdb_nparams; on a released handle the count it reads may differ from
\* len(args)), s.rows = true, and duckdb_execute_prepared.
StmtQueryStep(t, res) ==
  LET pc == thr[t].pc
  IN \/ /\ pc = "Q_closed"
        /\ IF stmts[1].closed
             THEN Return(t, "stmt.Query", 1, "panic")
             ELSE Goto(t, "Q_rows") /\ UNCHANGED last
        /\ UNCHANGED <<c, stmts, rows, txs, native, mu>>
     \/ /\ pc = "Q_rows"
        /\ IF stmts[1].rows
             THEN Return(t, "stmt.Query", 1, "panic")
             ELSE Goto(t, "Q_start") /\ UNCHANGED last
        /\ UNCHANGED <<c, stmts, rows, txs, native, mu>>
     \/ /\ pc = "Q_start"
        /\ \/ GotoBad(t, "Q_setrows", stmtBadCalls("duckdb_nparams(released)"))
              /\ UNCHANGED last
           \/ /\ stmts[1].destroyed > 0
              /\ thr' = [thr EXCEPT ![t].pc = "idle",
                                    ![t].bad = @ \cup {"duckdb_nparams(released)"}]
              /\ last' = [Ret("stmt.Query", 1, "argcount")
                            EXCEPT !.bad = {"duckdb_nparams(released)"}]
        /\ UNCHANGED <<c, stmts, rows, txs, native, mu>>
     \/ /\ pc = "Q_setrows"
        /\ stmts' = [stmts EXCEPT ![1].rows = TRUE]
        /\ Goto(t, "Q_exec")
        /\ UNCHANGED <<c, rows, txs, native, last, mu>>
     \/ /\ pc = "Q_exec"
        /\ LET bad == thr[t].bad \cup stmtBadCalls("duckdb_execute_prepared(released)")
           IN \/ /\ thr' = [thr EXCEPT ![t].pc = "idle", ![t].bad = bad]
                 /\ last' = [Ret("stmt.Query", 1, "engine error")
                               EXCEPT !.bad = bad, !.leaked = 1]
                 /\ UNCHANGED rows
              \/ /\ Len(rows) < MaxCursors
                 /\ thr' = [thr EXCEPT ![t].pc = "idle", ![t].bad = bad]
                 /\ last' = [Ret("stmt.Query", 1, "ok") EXCEPT !.bad = bad]
                 /\ rows' = Append(rows, NewRows(res, 1))
        /\ UNCHANGED <<c, stmts, txs, native, mu>>

StmtExecStep(t) ==
  LET pc == thr[t].pc
  IN \/ /\ pc = "E_closed"
        /\ IF stmts[1].closed
             THEN Return(t, "stmt.Exec", 1, "panic")
             ELSE Goto(t, "E_rows") /\ UNCHANGED last
        /\ UNCHANGED <<c, stmts, rows, txs, native, mu>>
     \/ /\ pc = "E_rows"
        /\ IF stmts[1].rows
             THEN Return(t, "stmt.Exec", 1, "panic")
             ELSE Goto(t, "E_start") /\ UNCHANGED last
        /\ UNCHANGED <<c, stmts, rows, txs, native, mu>>
     \/ /\ pc = "E_start"
        /\ \/ GotoBad(t, "E_exec", stmtBadCalls("duckdb_nparams(released)"))
              /\ UNCHANGED last
           \/ /\ stmts[1].destroyed > 0
              /\ thr' = [thr EXCEPT ![t].pc = "idle",
                                    ![t].bad = @ \cup {"duckdb_nparams(released)"}]
              /\ last' = [Ret("stmt.Exec", 1, "argcount")
                            EXCEPT !.bad = {"duckdb_nparams(released)"}]
        /\ UNCHANGED <<c, stmts, rows, txs, native, mu>>
     \/ /\ pc = "E_exec"
        /\ LET bad == thr[t].bad \cup stmtBadCalls("duckdb_execute_prepared(released)")
           IN \E eng \in EngineOutcomes :
                /\ thr' = [thr EXCEPT ![t].pc = "idle", ![t].bad = bad]
                /\ last' = [Ret("stmt.Exec", 1,
                                IF eng = "error" THEN "engine error" ELSE "ok")
                              EXCEPT !.bad = bad,
                                     !.leaked = IF eng = "error" THEN 1 ELSE 0]
        /\ UNCHANGED <<c, stmts, rows, txs, native, mu>>

\* The steps of stmt.Close: s.mu.Lock(), the two tests, s.closed = true,
\* duckdb_destroy_prepare, and the deferred s.mu.Unlock() at each return.
StmtCloseStep(t) ==
  LET pc == thr[t].pc
  IN \/ /\ pc = "SC_lock"
        /\ mu.s = 0
        /\ mu' = [mu EXCEPT !.s = t]
        /\ Goto(t, "SC_rows")
        /\ UNCHANGED <<c, stmts, rows, txs, native, last>>
     \/ /\ pc = "SC_rows"
        /\ IF stmts[1].rows
             THEN /\ Return(t, "stmt.Close", 1, "error: Close with active Rows")
                  /\ mu' = [mu EXCEPT !.s = 0]
             ELSE Goto(t, "SC_closed") /\ UNCHANGED <<last, mu>>
        /\ UNCHANGED <<c, stmts, rows, txs, native>>
     \/ /\ pc = "SC_closed"
        /\ IF AlreadyClosed(stmts[1])
             THEN /\ Return(t, "stmt.Close", 1, "error: double Close of Stmt")
                  /\ mu' = [mu EXCEPT !.s = 0]
             ELSE Goto(t, "SC_set") /\ UNCHANGED <<last, mu>>
        /\ UNCHANGED <<c, stmts, rows, txs, native>>
     \/ /\ pc = "SC_set"
        /\ stmts' = [stmts EXCEPT ![1].closed = TRUE]
        /\ Goto(t, "SC_destroy")
        /\ UNCHANGED <<c, rows, txs, native, last, mu>>
     \/ /\ pc = "SC_destroy"
        /\ stmts' = [stmts EXCEPT ![1].destroyed = @ + 1]
        /\ Return(t, "stmt.Close", 1, "ok")
        /\ mu' = [mu EXCEPT !.s = 0]
        /\ UNCHANGED <<c, rows, txs, native>>

\* The steps of conn.Close: c.mu.Lock(), the test of c.db, duckdb_disconnect,
\* duckdb_close, c.db = nil, and the deferred c.mu.Unlock().
ConnCloseStep(t) ==
  LET pc == thr[t].pc
  IN \/ /\ pc = "CC_lock"
        /\ mu.c = 0
        /\ mu' = [mu EXCEPT !.c = t]
        /\ Goto(t, "CC_db")
        /\ UNCHANGED <<c, stmts, rows, txs, native, last>>
     \/ /\ pc = "CC_db"
        /\ IF c.db = "nil"
             THEN /\ Return(t, "conn.Close", 0, "error: already closed")
                  /\ mu' = [mu EXCEPT !.c = 0]
             ELSE Goto(t, "CC_disconnect") /\ UNCHANGED <<last, mu>>
        /\ UNCHANGED <<c, stmts, rows, txs, native>>
     \/ /\ pc = "CC_disconnect"
        /\ native' = [native EXCEPT !.disconnects = @ + 1]
        /\ Goto(t, "CC_close")
        /\ UNCHANGED <<c, stmts, rows, txs, last, mu>>
     \/ /\ pc = "CC_close"
        /\ native' = [native EXCEPT !.closes = @ + 1]
        /\ Goto(t, "CC_nil")
        /\ UNCHANGED <<c, stmts, rows, txs, last, mu>>
     \/ /\ pc = "CC_nil"
        /\ c' = [c EXCEPT !.db = "nil"]
        /\ Return(t, "conn.Close", 0, "ok")
        /\ mu' = [mu EXCEPT !.c = 0]
        /\ UNCHANGED <<stmts, rows, txs, native>>

\* The one step of c.exec, as conn.Exec and conn.Begin run it:
\* duckdb_query(*c.con, ...), with no Lock and no test of c.db.
ConnExecStep(t) ==
  /\ thr[t].pc = "X_query"
  /\ LET bad == IF native.disconnects > 0 THEN {"duckdb_query(released)"} ELSE {}
     IN \E eng \in EngineOutcomes :
          /\ thr' = [thr EXCEPT ![t].pc = "idle", ![t].bad = bad]
          /\ last' = [Ret("conn.Exec", 0, IF eng = "error" THEN "engine error" ELSE "ok")
                        EXCEPT !.bad = bad, !.leaked = IF eng = "error" THEN 1 ELSE 0]
  /\ UNCHANGED <<c, stmts, rows, txs, native, mu>>

NextConc ==
  \/ \E t \in 1..NThreads, entry \in Entries : Call(t, entry)
  \/ \E t \in 1..NThreads, res \in LifeResults : StmtQueryStep(t, res)
  \/ \E t \in 1..NThreads : StmtExecStep(t)
  \/ \E t \in 1..NThreads : StmtCloseStep(t)
  \/ \E t \in 1..NThreads : ConnCloseStep(t)
  \/ \E t \in 1..NThreads : ConnExecStep(t)
  \/ \E j \in DOMAIN rows : RowsClose(j)

SpecConc == InitConc /\ [][NextConc]_vars

\* C3: under every interleaving of concurrent Query calls on one Statement,
\* at most one of them obtains a cursor: the Statement never has two open
\* cursors at once.
C3_ConcurrentQueriesOneCursor ==
  \A i \in DOMAIN stmts : Cardinality(OpenCursorsOf(i)) <= 1

\* C4: a call on a Statement or Connection that began before a concurrent
\* Close released the native handle makes no native call on the released
\* handle.
C4_NoNativeCallAfterConcurrentRelease ==
  \A t \in 1..NThreads : thr[t].pre => thr[t].bad = {}

\* ------------------------------------------------------- interpolation
\* conn.Query called once with a query and an argument list: the call is
\* drawn in the initial state (last.op = "call" is the call about to be
\* made), conn.Query runs interpolateParams on it and submits the text.
\* The queries are all texts of up to MaxQueryLen bytes over a letter and the
\* placeholder; the arguments are of every kind a driver.Value can have.
InterpArgValues ==
  {NilArg, OtherArg, IntArg("int8", -3), IntArg("int16", 12), IntArg("int32", 0),
   IntArg("int64", 7), FloatArg(15, 1), BoolArg(TRUE), BoolArg(FALSE),
   TimeArg(61, 5000), StrArg(<<"a">>), StrArg(<<"?">>), StrArg(<<"'", "?">>)}

InterpArgs == SeqsUpTo(InterpArgValues, MaxArgs)

\* The texts given as the one argument of the query "?".
TextBytes == {"a", "NUL", "LF", "CR", "SUB", "'", "\"", "\\"}

Texts == SeqsUpTo(TextBytes, MaxTextLen)

PendingCall(query, args) ==
  [Ret("call", 0, "") EXCEPT !.query = query, !.args = args]

InitInterp ==
  /\ c = [db |-> "open"]
  /\ stmts = <<>>
  /\ rows = <<>>
  /\ txs = <<>>
  /\ native = NativeOpened(<<>>, <<>>)
  /\ last \in {PendingCall(q, a) : q \in DirectQueries, a \in InterpArgs}
             \cup {PendingCall(<<"?">>, <<StrArg(s)>>) : s \in Texts}
  /\ thr = IdleThreads
  /\ mu = [c |-> 0, s |-> 0]

NextInterp ==
  \/ \E e \in EngineOutcomes, res \in LifeResults :
       /\ last.op = "call"
       /\ ConnQuery(last.query, last.args, e, res)
  \/ \E j \in DOMAIN rows : RowsClose(j)

SpecInterp == InitInterp /\ [][NextInterp]_vars

\* The kinds of argument the specification names as recognized.
RecognizedKinds ==
  {"int8", "int16", "int32", "int64", "float64", "bool", "time", "string", "nil"}

\* The query with its k-th placeholder replaced by the literal of the k-th
\* argument, computed from the right end.
RECURSIVE Substituted(_, _)
Substituted(query, args) ==
  IF query = <<>> THEN <<>>
  ELSE LET n == Len(query)
           m == Len(args)
       IN IF query[n] = "?"
            THEN Substituted(SubSeq(query, 1, n - 1), SubSeq(args, 1, m - 1))
                   \o Literal(args[m])
            ELSE Append(Substituted(SubSeq(query, 1, n - 1), args), query[n])

\* The number of "?" bytes within the text arguments.
RECURSIVE PlaceholderBytesIn(_)
PlaceholderBytesIn(args) ==
  IF args = <<>> THEN 0
  ELSE (IF Head(args).kind = "string" THEN Count(Head(args).s, "?") ELSE 0)
         + PlaceholderBytesIn(Tail(args))

\* What conn.Query did with interpolateParams' answer: with counts that
\* differ, ErrSkip and nothing submitted; with equal counts and arguments of
\* recognized kinds, the query with each placeholder replaced by its
\* argument's literal, in which left "?" bytes are as many as leftInText.
C11_Holds(leftInText) ==
  last.op = "conn.Query" =>
    LET n == Count(last.query, "?")
    IN /\ n # Len(last.args) => (last.out = "ErrSkip" /\ last.sent = <<>>)
       /\ (n = Len(last.args)
             /\ \A k \in DOMAIN last.args : last.args[k].kind \in RecognizedKinds)
            => /\ last.out \in {"ok", "engine error"}
               /\ last.sent = <<Substituted(last.query, last.args)>>
               /\ Count(last.sent[1], "?")
                    = (IF leftInText THEN PlaceholderBytesIn(last.args) ELSE 0)

\* C11 as stated: for a query of N placeholders and N arguments of supported
\* kinds interpolateParams returns the query with the k-th placeholder
\* replaced by the k-th argument's literal, a text with no "?" byte left;
\* with counts that differ it returns ErrSkip and no other error.
C11_NoPlaceholderByteLeft == C11_Holds(FALSE)

\* C11 amended: as above, and the "?" bytes of the result are exactly those
\* of the text arguments, which the literals carry over unescaped.
C11_PlaceholdersSubstituted == C11_Holds(TRUE)

\* Two placeholders were replaced, one by a text that has a "?" byte.
C11_Witness ==
  /\ last.op = "conn.Query" /\ last.out = "ok"
  /\ Count(last.query, "?") = 2 /\ Len(last.args) = 2
  /\ last.args[1].kind = "int64" /\ last.args[2] = StrArg(<<"?">>)
  /\ last.sent # <<>>

\* A lexer of single-quoted literals with backslash escapes: the index of
\* the quote that closes the literal opened at byte 1 (0: none), scanning
\* from byte i; a backslash takes the byte after it with it.
RECURSIVE ClosingQuote(_, _)
ClosingQuote(text, i) ==
  IF i > Len(text) THEN 0
  ELSE IF text[i] = "\\" THEN ClosingQuote(text, i + 2)
  ELSE IF text[i] = "'" THEN i
  ELSE ClosingQuote(text, i + 1)

\* The byte an escape sequence backslash-x stands for.
Unescaped(x) ==
  CASE x = "0" -> "NUL" [] x = "n" -> "LF" [] x = "r" -> "CR" [] x = "Z" -> "SUB"
    [] OTHER -> x

\* The two-byte escape sequence of a byte that has one.
TwoByteEscape(ch) ==
  CASE ch = "NUL" -> <<"\\", "0">> [] ch = "LF" -> <<"\\", "n">>
    [] ch = "CR" -> <<"\\", "r">> [] ch = "SUB" -> <<"\\", "Z">>
    [] ch \in {"'", "\"", "\\"} -> <<"\\", ch>>
    [] OTHER -> <<ch>>

RECURSIVE Unescape(_)
Unescape(body) ==
  IF body = <<>> THEN <<>>
  ELSE IF Head(body) = "\\" /\ Len(body) >= 2
    THEN <<Unescaped(body[2])>> \o Unescape(SubSeq(body, 3, Len(body)))
    ELSE <<Head(body)>> \o Unescape(Tail(body))

RECURSIVE EscapedBody(_)
EscapedBody(v) ==
  IF v = <<>> THEN <<>> ELSE TwoByteEscape(Head(v)) \o EscapedBody(Tail(v))

\* C12: the text conn.Query submits for the query "?" and a text argument
\* is a quote, a body and a quote, where the body has each of NUL, LF, CR,
\* 0x1A, quote, double quote and backslash as its two-byte escape sequence;
\* the lexer finds the literal to close at the last byte, and unescaping the
\* body gives the argument back.
C12_TextLiteralRoundTrips ==
  (/\ last.op = "conn.Query" /\ last.query = <<"?">> /\ Len(last.args) = 1
   /\ last.args[1].kind = "string" /\ last.sent # <<>>)
    => LET text == last.sent[1]
           n == Len(text)
           body == SubSeq(text, 2, n - 1)
       IN /\ n >= 2 /\ text[1] = "'" /\ text[n] = "'"
          /\ body = EscapedBody(last.args[1].s)
          /\ ClosingQuote(text, 2) = n
          /\ Unescape(body) = last.args[1].s

\* ------------------------------------------------- timestamps, there and back
\* A Statement of one parameter prepared from a reflecting SELECT ?: Query
\* binds a time.Time, the engine's result has one row with the one TIMESTAMP
\* cell holding the duckdb_timestamp that was bound, and Next decodes it.
TimeValues ==
  {TimeArg(sec, nsec) : sec \in {0, 61, 2000},
                        nsec \in {0, 1500, 5000, 123456789, 999999999}}

\* The result of SELECT ? after the bind calls binds.
Reflected(binds) == ResultOf(1, <<"TIMESTAMP">>, binds[1].val.i)

InitTime ==
  /\ c = [db |-> "open"]
  /\ stmts = <<NewStmt(1)>>
  /\ rows = <<>>
  /\ txs = <<>>
  /\ native = NativeOpened(<<>>, <<>>)
  /\ last = Ret("conn.Prepare", 0, "ok")
  /\ thr = IdleThreads
  /\ mu = [c |-> 0, s |-> 0]

NextTime ==
  \/ \E t \in TimeValues, e \in EngineOutcomes :
       StmtQuery(1, <<t>>, 0, e, Reflected(start(1, <<t>>, 0).binds))
  \/ \E j \in DOMAIN rows : RowsNext(j)
  \/ \E j \in DOMAIN rows : RowsClose(j)

SpecTime == InitTime /\ [][NextTime]_vars

\* t truncated to microsecond precision.
TruncatedToMicro(t) == [sec |-> t.i, nsec |-> (t.j \div 1000) * 1000]

\* C13: the date-time Next decodes from the TIMESTAMP cell that holds the
\* value bound for the time.Time t is t truncated to the microsecond; its
\* sub-second part is the microsecond of the second of t.
C13_TimestampRoundTrip ==
  \A j \in DOMAIN rows :
    (rows[j].origin = 1 /\ rows[j].returned # <<>>)
      => LET t == rows[j].args[1]
             got == rows[j].returned[1][1]
         IN /\ got.type = "time.Time"
            /\ got.val = TruncatedToMicro(t)
            /\ got.val.nsec \div 1000 = t.j \div 1000

\* ------------------------------------------------------------- the binder
\* A Statement of any parameter count up to MaxParams, and Exec or Query
\* called on it once with any list of up to MaxArgs arguments of any kind:
\* the call is drawn in the initial state (last.op = "call" is the call about
\* to be made); the engine may reject any one of the bind calls.
BindArgValues ==
  {NilArg, OtherArg, IntArg("int8", -3), IntArg("int16", 12), IntArg("int32", 0),
   IntArg("int64", 7), FloatArg(15, 1), BoolArg(TRUE), TimeArg(61, 5000),
   StrArg(<<"a">>)}

BindArgs == SeqsUpTo(BindArgValues, MaxArgs)

InitBind ==
  /\ c = [db |-> "open"]
  /\ stmts \in {<<NewStmt(np)>> : np \in 0..MaxParams}
  /\ rows = <<>>
  /\ txs = <<>>
  /\ native = NativeOpened(<<>>, <<>>)
  /\ last \in {PendingCall(<<>>, a) : a \in BindArgs}
  /\ thr = IdleThreads
  /\ mu = [c |-> 0, s |-> 0]

NextBind ==
  \/ \E e \in EngineOutcomes, f \in 0..Len(last.args) :
       /\ last.op = "call"
       /\ StmtExec(1, last.args, f, e)
  \/ \E e \in EngineOutcomes, res \in LifeResults, f \in 0..Len(last.args) :
       /\ last.op = "call"
       /\ StmtQuery(1, last.args, f, e, res)
  \/ \E j \in DOMAIN rows : RowsClose(j)

SpecBind == InitBind /\ [][NextBind]_vars

\* The last call is an Exec or Query that got as far as start.
Started == last.op \in {"stmt.Exec", "stmt.Query"} /\ last.out # "panic"

\* C14: with len(args) different from the parameter count, start fails with
\* the argument count error, which prints len(args) as the actual and the
\* parameter count as the expected count, and no bind call is made; with
\* equal counts the k-th bind call made is for the k-th argument, at native
\* position k (list index k-1, plus one), and a start that succeeds has
\* bound every argument.
C14_CountTestedThenBoundInOrder ==
  Started =>
    LET np == stmts[last.id].nparams
        n == Len(last.args)
    IN /\ np # n => /\ last.out = "argcount"
                     /\ last.msg = <<"have">> \o AppendInt(n) \o <<"want">> \o AppendInt(np)
                     /\ last.binds = <<>>
       /\ np = n => /\ last.out # "argcount"
                     /\ Len(last.binds) <= n
                     /\ \A k \in DOMAIN last.binds :
                          /\ last.binds[k].pos = k
                          /\ last.binds[k].fn = BindCall(last.args[k].kind)
                     /\ last.out \in {"ok", "engine error"} => Len(last.binds) = n

\* Both cases happened: a call with too many arguments, and (this one) a call
\* that bound two arguments of different kinds at positions 1 and 2.
C14_Witness ==
  /\ Started /\ last.out = "ok"
  /\ Len(last.args) = 2 /\ stmts[last.id].nparams = 2
  /\ last.binds[1].fn = "duckdb_bind_int64" /\ last.binds[2].fn = "duckdb_bind_varchar"
  /\ last.binds[2].pos = 2

\* C15: for a list of as many arguments as the Statement has parameters,
\* whose bind calls the engine all accepts, start returns ErrSkip if and only
\* if some argument is of a kind outside the recognized ones; arguments of
\* recognized kinds, nil among them, are all bound.
C15_SkipIffUnrecognizedKind ==
  (/\ Started /\ last.out # "errCouldNotBind"
   /\ stmts[last.id].nparams = Len(last.args))
    => /\ last.out = "ErrSkip"
            <=> (\E k \in DOMAIN last.args : last.args[k].kind \notin RecognizedKinds)
       /\ (\A k \in DOMAIN last.args : last.args[k].kind \in RecognizedKinds)
            => Len(last.binds) = Len(last.args)

\* ------------------------------------------------------------ transactions
\* One Connection: Begin, Commit and Rollback of the handles Begin returned,
\* plain statements in between, and Close of the Connection.
NextTx ==
  \/ \E e \in EngineOutcomes : ConnBegin(e)
  \/ \E k \in DOMAIN txs, e \in EngineOutcomes : TxCommit(k, e)
  \/ \E k \in DOMAIN txs, e \in EngineOutcomes : TxRollback(k, e)
  \/ \E q \in LifeQueries, a \in LifeArgs, e \in EngineOutcomes : ConnExec(q, a, e)
  \/ ConnClose

SpecTx == Init /\ [][NextTx]_vars

TxOps == {"tx.Commit", "tx.Rollback"}

\* The step is a Begin: it submits BEGIN TRANSACTION and on success returns
\* a new handle that refers to the Connection.
C16_Begin ==
  last'.op = "conn.Begin" =>
    /\ last'.sent = <<BeginText>>
    /\ txs' = (IF last'.out = "ok" THEN Append(txs, [c |-> "conn"]) ELSE txs)

\* The step is a Commit or Rollback of handle k: the first one submits its
\* one statement and clears the reference, succeed or fail; a later one
\* panics and submits nothing.
C16_End(k) ==
  (last'.op \in TxOps /\ last'.id = k) =>
    IF txs[k].c = "conn"
      THEN /\ last'.sent = <<IF last'.op = "tx.Commit" THEN CommitText ELSE RollbackText>>
           /\ last'.out \in {"ok", "engine error"}
           /\ txs'[k].c = "nil"
      ELSE /\ last'.out = "panic"
           /\ last'.sent = <<>>
           /\ txs' = txs

\* C16: Begin submits BEGIN TRANSACTION and returns a handle; the first
\* Commit or Rollback of a handle submits exactly one statement (COMMIT
\* TRANSACTION or ROLLBACK) and clears the handle's Connection reference
\* whether the statement succeeded or failed; every later Commit or Rollback
\* of the handle fails (it panics) and submits nothing.
C16_TransactionHandleUsedOnce ==
  [][C16_Begin /\ \A k \in DOMAIN txs : C16_End(k)]_vars

\* A handle whose first Commit failed in the engine was used again.
C16_Witness ==
  /\ last.op = "tx.Rollback" /\ last.out = "panic"
  /\ txs[last.id].c = "nil"

\* ---------------------------------------------------------------- opening
\* func (d duckdb) Open(dsn string): eng is "ok" or the engine call that
\* returns DuckDBError.  No Connection exists before it (c.db = "nil").
OpenOutcomes == {"ok", "duckdb_create_config", "duckdb_open_ext", "duckdb_connect"}

Open(dsn, eng) ==
  LET a == OpenArgs(dsn)
  IN /\ last' = [Ret("Open", 0, IF eng = "ok" THEN "ok" ELSE "errError")
                   EXCEPT !.query = dsn,
                          !.sent = IF eng = "duckdb_create_config" THEN <<>> ELSE <<a.path>>]
     /\ native' = IF eng = "duckdb_create_config" THEN native
                  ELSE NativeOpened(a.path, a.config)
     /\ c' = [c EXCEPT !.db = IF eng = "ok" THEN "open" ELSE "nil"]
     /\ UNCHANGED <<stmts, rows, txs, thr, mu>>

\* The connection strings: a path of up to MaxPathLen bytes, alone or
\* followed by "?" and up to MaxPairs parameters joined by "&".
DsnKeys == {"access_mode", "threads", "max_memory", "default_order", "other"}

DsnValues == {<<"v">>, <<"+">>, <<"v", "?">>}

DsnPairs ==
  {<<k>> : k \in DsnKeys} \cup {<<k, "=">> : k \in DsnKeys}
    \cup {<<k, "=">> \o v : k \in DsnKeys, v \in DsnValues}

RECURSIVE DsnQueries(_)
DsnQueries(n) ==
  IF n = 0 THEN {<<>>}
  ELSE DsnQueries(n - 1)
         \cup {q \o (IF q = <<>> THEN <<>> ELSE <<"&">>) \o pr :
                 q \in DsnQueries(n - 1), pr \in DsnPairs}

DsnPaths == SeqsUpTo({"p"}, MaxPathLen)

Dsns ==
  DsnPaths \cup {path \o <<"?">> \o q : path \in DsnPaths,
                  q \in {x \in DsnQueries(MaxPairs) :
                           \A i, j \in DOMAIN ParseQuery(x) :
                             ParseQuery(x)[i].key = ParseQuery(x)[j].key => i = j}}

InitOpen ==
  /\ c = [db |-> "nil"]
  /\ stmts = <<>>
  /\ rows = <<>>
  /\ txs = <<>>
  /\ native = NativeOpened(<<>>, <<>>)
  /\ last \in {PendingCall(dsn, <<>>) : dsn \in Dsns}
  /\ thr = IdleThreads
  /\ mu = [c |-> 0, s |-> 0]

NextOpen ==
  \/ \E e \in OpenOutcomes :
       /\ last.op = "call"
       /\ Open(last.query, e)
  \/ /\ last.op = "Open" /\ last.out = "ok"
     /\ ConnClose

SpecOpen == InitOpen /\ [][NextOpen]_vars

\* The parameters of the text after the first "?" of a dsn, read piece by
\* piece from the right: the pieces between "&", each a key, "=", a value.
RECURSIVE PiecesOf(_, _)
PiecesOf(text, piece) ==
  IF text = <<>> THEN (IF piece = <<>> THEN {} ELSE {piece})
  ELSE LET n == Len(text)
       IN IF text[n] = "&"
            THEN (IF piece = <<>> THEN {} ELSE {piece})
                   \cup PiecesOf(SubSeq(text, 1, n - 1), <<>>)
            ELSE PiecesOf(SubSeq(text, 1, n - 1), <<text[n]>> \o piece)

\* The flags among the four that a dsn has with a non-empty value, each with
\* its value ("+" read as a space).
PresentFlags(dsn) ==
  LET pos == CHOOSE i \in 1..Len(dsn) : dsn[i] = "?" /\ \A j \in 1..(i - 1) : dsn[j] # "?"
      pieces == PiecesOf(SubSeq(dsn, pos + 1, Len(dsn)), <<>>)
  IN {[flag |-> pc[1], value |-> QueryUnescape(SubSeq(pc, 3, Len(pc)))] :
        pc \in {x \in pieces : /\ Len(x) >= 3 /\ x[2] = "="
                                /\ x[1] \in Range(ConfigFlags)}}

\* C17: for a dsn that contains a "?", the name Open gives to the engine's
\* open call is the part of the dsn before its first "?", a path with no
\* "?" in it, and the configuration it sets is exactly the ones of
\* access_mode, threads, max_memory and default_order that the dsn has with
\* a non-empty value; other parameters set nothing.
C17_OpenSplitsPathAndParams ==
  (last.op = "Open" /\ last.sent # <<>> /\ "?" \in Range(last.query))
    => /\ "?" \notin Range(native.path)
       /\ native.path \o <<"?">> = SubSeq(last.query, 1, Len(native.path) + 1)
       /\ Range(native.config) = PresentFlags(last.query)
       /\ Len(native.config) = Cardinality(PresentFlags(last.query))

\* ------------------------------------------- cursors of a Statement
\* One cursor at a time that Query of a Statement with no parameters
\* returns, over any result of up to MaxRows rows and MaxCols columns of any
\* native type.
NextStmtRows ==
  \/ \E res \in AllResults, e \in EngineOutcomes :
       /\ rows = <<>>
       /\ StmtQuery(1, <<>>, 0, e, res)
  \/ \E j \in DOMAIN rows : RowsNext(j)
  \/ \E j \in DOMAIN rows : RowsClose(j)
  \/ StmtClose(1)

SpecStmtRows == InitConc /\ [][NextStmtRows]_vars

\* The step is a Next call of cursor j.
C18_NextStep(j) ==
  (last'.op = "rows.Next" /\ last'.id = j) =>
    /\ rows'[j].cursor = rows[j].cursor + (IF last'.out = "ok" THEN 1 ELSE 0)
    /\ last'.out # "ok" =>
         /\ rows'[j].r = rows[j].r /\ rows'[j].res = rows[j].res
         /\ rows'[j].freed = rows[j].freed /\ rows'[j].s = rows[j].s
         /\ stmts' = stmts

\* C18: a Next call that succeeds moves the cursor offset by exactly one; a
\* Next call that returns io.EOF or errInvalidType (or panics) leaves the
\* offset, the result buffer and the flags of the owning Statement as they
\* were.
C18_NextAdvancesOnlyOnSuccess ==
  [][\A j \in DOMAIN rows : C18_NextStep(j)]_vars

\* A Next call on a cursor of the Statement failed to decode a row of a
\* result that has rows, and the cursor and the Statement's flag stand.
C18_Witness ==
  /\ last.op = "rows.Next" /\ last.out = "errInvalidType"
  /\ rows[last.id].origin = 1 /\ rows[last.id].res.n >= 1
  /\ rows[last.id].cursor = 0 /\ stmts[1].rows

\* C19: when a call returns, every result buffer it got from the engine is
\* released or is the buffer of the one cursor the call returned: the call
\* leaves no buffer unreleased and without an owner, and a buffer a cursor
\* owns is unreleased until the cursor's Close.
C19_EveryResultOwnedOrReleased ==
  /\ last.leaked = 0
  /\ \A j \in DOMAIN rows : rows[j].r = "res" => rows[j].freed = 0

\* C20: for a column of an open cursor, ColumnTypeDatabaseTypeName returns
\* a non-empty name exactly when ColumnTypeScanType returns a type and
\* exactly when Next stores a value for the column; and the type
\* ColumnTypeScanType returns is the host type of the value Next stored.
\* (Stated of each lookup as it returns, against the first row Next
\* returned; a column of the INVALID tag, for which Next returns no row, has
\* no name and no type.)
C20_LookupsAgreeWithNext ==
  \A j \in DOMAIN rows :
    (/\ last.op \in {"rows.ColumnTypeScanType", "rows.ColumnTypeDatabaseTypeName"}
     /\ last.id = j /\ rows[j].r = "res" /\ last.index <= Len(rows[j].res.cols))
      => LET tag == rows[j].res.cols[last.index]
         IN /\ tag = "INVALID" => last.val = ""
            /\ (last.val = "") <=> (ScanType(tag) = "" /\ DatabaseTypeName(tag) = "")
            /\ rows[j].returned # <<>> =>
                 LET cell == rows[j].returned[1][last.index]
                 IN /\ (last.val # "") <=> (cell.type # "untouched")
                    /\ (last.op = "rows.ColumnTypeScanType" /\ cell.type # "untouched")
                         => last.val = cell.type

====
